---------------------------- MODULE Spec2Model ----------------------------
(***************************************************************************)
(* A model of src/file_agent.py: the FileStructureAgent (directory walker, *)
(* tree renderer, summariser, digest builder, JSON writer, remote client)  *)
(* and the command dispatcher main().                                      *)
(*                                                                         *)
(* Three specifications share the module:                                  *)
(*   Spec      one run of main() over a small target directory;            *)
(*   SpecScan  the walker, renderer, summariser and digest builder applied *)
(*             to every directory tree of a bounded family;                *)
(*   SpecFmt   _format_size stepped through its loop on byte counts.       *)
(***************************************************************************)
EXTENDS Integers, Sequences, FiniteSets, TLC

VARIABLES
    fs,        \* the file system below the target path: path -> entry
    pc,        \* position of the running code
    args,      \* argparse namespace of main()
    apiKey,    \* os.getenv("DEEPSEEK_API_KEY")
    trace,     \* the steps of operations main() has executed, in order
    effects,   \* side effects so far: directory scans, file writes, requests
    seen,      \* per operation, the tree it observed when it read the disk
    results,   \* main()'s results dict
    printed,   \* what main() itself printed (tags), in order
    exitCode,  \* main()'s return value
    ioLog,     \* the outcomes the environment gave to the write and the request
    ret,       \* SpecScan: the value returned by the function applied
    fmt        \* SpecFmt: the locals of _format_size

vars == <<fs, pc, args, apiKey, trace, effects, seen, results, printed,
          exitCode, ioLog, ret, fmt>>

None == "None"

(***************************************************************************)
(* Byte counts.  Python integers are unbounded, so a byte count is kept as *)
(* its base-1024 digits, least significant first, without leading zeros    *)
(* (0 is the empty sequence).  size_bytes /= 1024.0 is exact on a double   *)
(* below 2^53, so the float is kept exactly: the integer part as digits    *)
(* and the digits shifted out behind the point, most significant first.    *)
(***************************************************************************)
Base == 1024

RECURSIVE ToLimbs(_)
ToLimbs(n) == IF n = 0 THEN <<>> ELSE <<n % Base>> \o ToLimbs(n \div Base)

\* float(size_bytes): no digit behind the point yet
ToFloat(limbs) == [whole |-> limbs, frac |-> <<>>]

\* size_bytes >= 1024
AtLeastBase(x) == Len(x.whole) >= 2

\* size_bytes /= 1024.0 (only taken when size_bytes >= 1024)
DivBase(x) == [whole |-> Tail(x.whole), frac |-> <<Head(x.whole)>> \o x.frac]

size_names == <<"B", "KB", "MB", "GB">>

\* limbs + 1
RECURSIVE IncLimbs(_)
IncLimbs(l) ==
    IF l = <<>> THEN <<1>>
    ELSE IF Head(l) + 1 < Base THEN <<Head(l) + 1>> \o Tail(l)
    ELSE <<0>> \o IncLimbs(Tail(l))

\* 10 * 0.frac as <<carry, digits behind the point>>, by long multiplication
\* from the least significant digit
RECURSIVE TimesTen(_)
TimesTen(frac) ==
    IF frac = <<>> THEN [carry |-> 0, rest |-> <<>>]
    ELSE LET low == TimesTen(Tail(frac))
             t   == 10 * Head(frac) + low.carry
         IN  [carry |-> t \div Base, rest |-> <<t % Base>> \o low.rest]

AllZero(s) == \A k \in 1..Len(s) : s[k] = 0

\* f"{x:.1f}": x rounded to one decimal, ties to the even tenth (the double
\* holds x exactly, and the conversion rounds the exact value half-even)
OneDecimal(x) ==
    LET m      == TimesTen(x.frac)
        half   == Base \div 2
        above  == /\ m.rest # <<>>
                  /\ \/ m.rest[1] > half
                     \/ m.rest[1] = half /\ ~AllZero(Tail(m.rest))
        tie    == m.rest # <<>> /\ m.rest[1] = half /\ AllZero(Tail(m.rest))
        tenth  == IF above \/ (tie /\ m.carry % 2 = 1)
                  THEN m.carry + 1 ELSE m.carry
    IN  IF tenth = 10
        THEN [int |-> IncLimbs(x.whole), dec |-> <<0>>]
        ELSE [int |-> x.whole, dec |-> <<tenth>>]

\* the while condition of _format_size
LoopCondAlways(x, i) == AtLeastBase(x)

LoopCond(x, i) == AtLeastBase(x) /\ i < Len(size_names) - 1

RECURSIVE FormatLoop(_, _)
FormatLoop(x, i) ==
    IF LoopCond(x, i) THEN FormatLoop(DivBase(x), i + 1)
    ELSE [x |-> x, i |-> i]

\* the returned text: integer part, decimal digit, unit ("0 B" has no decimal)
Text(r, unit) == [int |-> r.int, dec |-> r.dec, unit |-> unit]

ZeroText == [int |-> <<>>, dec |-> <<>>, unit |-> "B"]

\* size_names[i]; an index past the list is Python's IndexError
UnitAt(i) == IF i + 1 \in DOMAIN size_names THEN size_names[i + 1] ELSE "IndexError"

_format_size(limbs) ==
    IF limbs = <<>> THEN ZeroText
    ELSE LET e == FormatLoop(ToFloat(limbs), 0)
         IN  Text(OneDecimal(e.x), UnitAt(e.i))

(***************************************************************************)
(* The file system below the target path.  A path is the sequence of entry *)
(* names from the target directory down (<<>> is the target itself); an    *)
(* entry is a regular file with a size, or a directory whose listing       *)
(* succeeds, is denied (PermissionError) or fails otherwise (OSError).     *)
(* Entry names are strings; Python orders them by code point, which        *)
(* NameOrder lists in ascending order.                                     *)
(***************************************************************************)
NameOrder == <<"a.txt", "out.json", "sub">>

AllNames == {NameOrder[i] : i \in DOMAIN NameOrder}

\* the entry names of the trees of SpecScan, and of the target of Spec
ScanNames == {"a.txt", "sub"}

MainNames == {"a.txt", "out.json"}

Rank(name) == CHOOSE i \in DOMAIN NameOrder : NameOrder[i] = name

Sizes == {10, 20}

Listings == {"ok", "denied", "error"}

Depths == {1, 2}

MaxEntries == 4

MaxMainEntries == 2

PathsOver(names) == UNION {[1..d -> names] : d \in Depths}

Root == <<>>

Parent(p) == SubSeq(p, 1, Len(p) - 1)

FileAttrs == {[kind |-> "file", size |-> s] : s \in Sizes}

DirAttrs(ls) == {[kind |-> "dir", listing |-> l] : l \in ls}

CanAdd(f, p) ==
    /\ p \notin DOMAIN f
    /\ Parent(p) \in DOMAIN f
    /\ f[Parent(p)].kind = "dir"

Grow(S, ls, names) ==
    S \cup {t[1] @@ (t[2] :> t[3]) :
               t \in {u \in S \X PathsOver(names) \X (FileAttrs \cup DirAttrs(ls)) :
                         CanAdd(u[1], u[2])}}

\* every tree with at most n entries below the target directory
RECURSIVE TreesUpTo(_, _, _)
TreesUpTo(n, ls, names) ==
    IF n = 0 THEN {(Root :> d) : d \in DirAttrs(ls)}
    ELSE Grow(TreesUpTo(n - 1, ls, names), ls, names)

AllFS == TreesUpTo(MaxEntries, Listings, ScanNames)

\* the target path does not exist
NoFS == [p \in {} |-> None]


\* os.path.exists, os.path.isdir, os.path.isfile, os.path.getsize
exists(f, p) == p \in DOMAIN f

isdir(f, p) == p \in DOMAIN f /\ f[p].kind = "dir"

isfile(f, p) == p \in DOMAIN f /\ f[p].kind = "file"

getsize(f, p) == f[p].size

\* os.listdir(p): the names in p, or the exception it raises.  A path that
\* is absent or is no directory raises an OSError other than PermissionError.
listdir(f, p) ==
    IF ~isdir(f, p) THEN [ok |-> FALSE, exc |-> "OSError", items |-> {}]
    ELSE IF f[p].listing = "denied"
         THEN [ok |-> FALSE, exc |-> "PermissionError", items |-> {}]
    ELSE IF f[p].listing = "error"
         THEN [ok |-> FALSE, exc |-> "OSError", items |-> {}]
    ELSE [ok |-> TRUE, exc |-> None,
          items |-> {n \in AllNames : Append(p, n) \in DOMAIN f}]

\* sorted(items), descending: the order a reversed comparison would give
RECURSIVE sortedDescending(_)
sortedDescending(S) ==
    IF S = {} THEN <<>>
    ELSE LET m == CHOOSE x \in S : \A y \in S : Rank(y) <= Rank(x)
         IN  <<m>> \o sortedDescending(S \ {m})

\* sorted(items): ascending by code point
RECURSIVE sorted(_)
sorted(S) ==
    IF S = {} THEN <<>>
    ELSE LET m == CHOOSE x \in S : \A y \in S : Rank(x) <= Rank(y)
         IN  <<m>> \o sorted(S \ {m})

(***************************************************************************)
(* Tree Walker: FileStructureAgent.get_folder_structure.  A call returns   *)
(* [raised, exc, node, out]: whether it raised, the node it built and the  *)
(* warnings it printed.                                                    *)
(***************************************************************************)
RootName == "root"

\* os.path.basename(os.path.abspath(p))
basename(p) == IF p = Root THEN RootName ELSE p[Len(p)]

\* the "path" of a folder node is absolute, that of a file node is the joined
\* item_path (relative when the target path is)
FolderNode(p, children) ==
    [name |-> basename(p), type |-> "folder",
     path |-> [abs |-> TRUE, at |-> p], children |-> children]

FileNode(f, p) ==
    [name |-> basename(p), type |-> "file",
     path |-> [abs |-> FALSE, at |-> p], size |-> getsize(f, p)]

Returned(node, out) == [raised |-> FALSE, exc |-> None, node |-> node, out |-> out]

Raised(exc, out) == [raised |-> TRUE, exc |-> exc, node |-> None, out |-> out]

\* no handler around the loop: the exception leaves the call
Uncaught(p, node, exc, out) == Raised(exc, out)

\* except PermissionError / except Exception: the failure is printed and the
\* node, with the children appended so far, is returned
Caught(p, node, exc, out) ==
    Returned(node,
             Append(out, [warn |-> IF exc = "PermissionError"
                                   THEN "no permission" ELSE "scan error",
                          at |-> p]))

RECURSIVE get_folder_structure(_, _)
RECURSIVE ScanItems(_, _, _, _, _)

\* the for loop over sorted(items)
ScanItems(f, p, items, children, out) ==
    IF items = <<>> THEN [raised |-> FALSE, exc |-> None,
                          children |-> children, out |-> out]
    ELSE LET item      == Head(items)
             item_path == Append(p, item)
         IN  IF isdir(f, item_path)
             THEN LET r == get_folder_structure(f, item_path)
                  IN  IF r.raised
                      THEN [raised |-> TRUE, exc |-> r.exc,
                            children |-> children, out |-> out \o r.out]
                      ELSE ScanItems(f, p, Tail(items),
                                     Append(children, r.node), out \o r.out)
             ELSE ScanItems(f, p, Tail(items),
                            Append(children, FileNode(f, item_path)), out)

get_folder_structure(f, p) ==
    IF ~exists(f, p) THEN Raised("FileNotFoundError", <<>>)
    ELSE LET l == listdir(f, p)
         IN  IF ~l.ok THEN Caught(p, FolderNode(p, <<>>), l.exc, <<>>)
             ELSE LET body == ScanItems(f, p, sorted(l.items), <<>>, <<>>)
                  IN  IF body.raised
                      THEN Caught(p, FolderNode(p, body.children),
                                  body.exc, body.out)
                      ELSE Returned(FolderNode(p, body.children), body.out)

(***************************************************************************)
(* Structure Summarizer: count_items of get_structure_summary.             *)
(***************************************************************************)
\* a slip that forgets the files of sub-folders
AddSubFoldersOnly(acc, sub) == <<acc[1] + sub[1], acc[2], acc[3] + sub[3]>>

\* folders += sub_folders; files += sub_files; total_size += sub_size
AddSub(acc, sub) == <<acc[1] + sub[1], acc[2] + sub[2], acc[3] + sub[3]>>

\* files += 1; total_size += child.get("size", 0)
AddFile(acc, child) == <<acc[1], acc[2] + 1, acc[3] + child.size>>

RECURSIVE count_items(_)
RECURSIVE CountChildren(_, _)

CountChildren(children, acc) ==
    IF children = <<>> THEN acc
    ELSE LET child == Head(children)
         IN  IF child.type = "folder"
             THEN CountChildren(Tail(children), AddSub(acc, count_items(child)))
             ELSE CountChildren(Tail(children), AddFile(acc, child))

count_items(struct) ==
    IF struct.type = "folder" THEN CountChildren(struct.children, <<1, 0, 0>>)
    ELSE <<0, 0, 0>>

get_structure_summary(f, p) ==
    LET r == get_folder_structure(f, p)
    IN  IF r.raised THEN [raised |-> TRUE, exc |-> r.exc, out |-> r.out]
        ELSE LET c == count_items(r.node)
             IN  [raised |-> FALSE, exc |-> None, out |-> r.out,
                  structure |-> r.node, counts |-> c,
                  summary |-> [folders |-> c[1], files |-> c[2],
                               total |-> _format_size(ToLimbs(c[3])),
                               path |-> p]]

(***************************************************************************)
(* Text Digest Builder: _structure_to_text.  A line is its indent (number  *)
(* of spaces) and what follows it.                                         *)
(***************************************************************************)
Indent(level) == 2 * level

\* a guard that truncates folders only
BeyondDepthFolder(structure, level, max_depth) ==
    level > max_depth /\ structure.type = "folder"

\* level > max_depth
BeyondDepth(structure, level, max_depth) == level > max_depth

RECURSIVE _structure_to_text(_, _, _)
RECURSIVE ChildrenText(_, _, _)

ChildrenText(children, level, max_depth) ==
    IF children = <<>> THEN <<>>
    ELSE _structure_to_text(Head(children), level, max_depth)
         \o ChildrenText(Tail(children), level, max_depth)

_structure_to_text(structure, level, max_depth) ==
    IF BeyondDepth(structure, level, max_depth)
    THEN << [indent |-> Indent(level), kind |-> "..."] >>
    ELSE IF structure.type = "folder"
    THEN << [indent |-> Indent(level), kind |-> "folder",
             name |-> structure.name] >>
         \o ChildrenText(structure.children, level + 1, max_depth)
    ELSE << [indent |-> Indent(level), kind |-> "file",
             name |-> structure.name,
             size |-> _format_size(ToLimbs(structure.size))] >>

(***************************************************************************)
(* Tree Renderer: _print_tree and display_structure_tree.  A printed line  *)
(* is its prefix (the segments accumulated for the ancestors), its         *)
(* connector and its label.                                                *)
(***************************************************************************)
\* [item for item in items if os.path.isdir(os.path.join(path, item))]
Folders(items, f, p) == SelectSeq(items, LAMBDA item : isdir(f, Append(p, item)))

\* [item for item in items if os.path.isfile(os.path.join(path, item))]
Files(items, f, p) == SelectSeq(items, LAMBDA item : isfile(f, Append(p, item)))

InSeq(x, seq) == \E k \in DOMAIN seq : seq[k] = x

\* all_items = folders + files
AllItems(items, folders, files) == folders \o files

\* the box-drawing connectors, in ASCII
Connector(is_last) == IF is_last THEN "+-- " ELSE "|-- "

RECURSIVE _print_tree(_, _, _, _)
RECURSIVE PrintItems(_, _, _, _, _, _, _)

\* the for loop over enumerate(all_items), from index i (0-based) on
PrintItems(f, path, prefix, show_size, all_items, folders, i) ==
    IF i >= Len(all_items) THEN <<>>
    ELSE LET item      == all_items[i + 1]
             item_path == Append(path, item)
             is_last   == (i = Len(all_items) - 1)
             here      ==
                 IF InSeq(item, folders)
                 THEN << [prefix |-> prefix, connector |-> Connector(is_last),
                          kind |-> "folder", name |-> item] >>
                      \o _print_tree(f, item_path,
                                     Append(prefix, IF is_last THEN "    " ELSE "|   "),
                                     show_size)
                 ELSE << [prefix |-> prefix, connector |-> Connector(is_last),
                          kind |-> "file", name |-> item,
                          size_info |-> IF show_size
                                        THEN <<_format_size(ToLimbs(getsize(f, item_path)))>>
                                        ELSE <<>>] >>
         IN  here \o PrintItems(f, path, prefix, show_size, all_items, folders, i + 1)

_print_tree(f, path, prefix, show_size) ==
    LET l == listdir(f, path)
    IN  IF ~l.ok
        THEN << [prefix |-> prefix, connector |-> Connector(TRUE),
                 kind |-> IF l.exc = "PermissionError" THEN "denied" ELSE "error"] >>
        ELSE LET items   == sorted(l.items)
                 folders == Folders(items, f, path)
                 files   == Files(items, f, path)
             IN  PrintItems(f, path, prefix, show_size,
                            AllItems(items, folders, files), folders, 0)

display_structure_tree(f, path, show_size) ==
    << [kind |-> "header", path |-> path], [kind |-> "rule"] >>
    \o _print_tree(f, path, <<>>, show_size)
    \o << [kind |-> "rule"] >>

(***************************************************************************)
(* A tree read back as the set of its nodes, and the disk read back as    *)
(* the set of its entries, independently of the code that walks them.      *)
(***************************************************************************)
RECURSIVE NodesOf(_)
NodesOf(node) ==
    IF node.type = "file" THEN {node}
    ELSE {node} \cup UNION {NodesOf(node.children[k]) : k \in DOMAIN node.children}

FolderNodes(node) == {n \in NodesOf(node) : n.type = "folder"}

FileNodes(node) == {n \in NodesOf(node) : n.type = "file"}

RECURSIVE SumSizes(_)
SumSizes(S) ==
    IF S = {} THEN 0
    ELSE LET n == CHOOSE x \in S : TRUE IN n.size + SumSizes(S \ {n})

Reverse(seq) == [k \in DOMAIN seq |-> seq[Len(seq) + 1 - k]]

\* the same tree with the children of every folder in the opposite order
RECURSIVE Mirror(_)
Mirror(node) ==
    IF node.type = "file" THEN node
    ELSE [node EXCEPT !.children =
              Reverse([k \in DOMAIN node.children |-> Mirror(node.children[k])])]

\* every directory above p can be listed
Reached(f, p) == \A k \in 0..(Len(p) - 1) : f[SubSeq(p, 1, k)].listing = "ok"

IsPrefix(q, e) == Len(q) <= Len(e) /\ SubSeq(e, 1, Len(q)) = q

\* the node a complete scan holds for entry e of the disk
HasNodeFor(node, f, e) ==
    \E n \in NodesOf(node) :
        /\ n.path.at = e
        /\ n.name = basename(e)
        /\ IF isdir(f, e) THEN n.type = "folder"
           ELSE n.type = "file" /\ n.size = f[e].size

ChildNames(f, p) == {n \in AllNames : Append(p, n) \in DOMAIN f}

(***************************************************************************)
(* SpecFmt: _format_size on the byte counts whose base-1024 digits are     *)
(* drawn from Digits, one step per loop iteration.                         *)
(***************************************************************************)
MaxLimbs == 5

Digits == {0, 1, 256, 512, 1023}

ByteCounts ==
    {<<>>} \cup UNION {{n \in [1..k -> Digits] : n[k] # 0} : k \in 1..MaxLimbs}

mainVars == <<args, apiKey, trace, effects, seen, results, printed, exitCode, ioLog>>

MainIdle ==
    /\ args = None /\ apiKey = None /\ trace = <<>> /\ effects = None
    /\ seen = None /\ results = <<>> /\ printed = <<>> /\ exitCode = None
    /\ ioLog = <<>>

InitFmt ==
    /\ MainIdle
    /\ fs = NoFS
    /\ ret = None
    /\ pc = "fmt_entry"
    /\ \E n \in ByteCounts : fmt = [n |-> n, x |-> ToFloat(n), i |-> 0, out |-> None]

\* if size_bytes == 0: return "0 B"; otherwise i = 0 and the loop is entered
FmtEnter ==
    /\ pc = "fmt_entry"
    /\ IF fmt.n = <<>>
       THEN pc' = "fmt_done" /\ fmt' = [fmt EXCEPT !.out = ZeroText]
       ELSE pc' = "fmt_loop" /\ fmt' = fmt
    /\ UNCHANGED <<fs, ret, mainVars>>

\* one iteration: size_bytes /= 1024.0; i += 1
FmtDivide ==
    /\ pc = "fmt_loop"
    /\ LoopCond(fmt.x, fmt.i)
    /\ fmt' = [fmt EXCEPT !.x = DivBase(fmt.x), !.i = fmt.i + 1]
    /\ UNCHANGED <<pc, fs, ret, mainVars>>

\* return f"{size_bytes:.1f} {size_names[i]}"
FmtReturn ==
    /\ pc = "fmt_loop"
    /\ ~LoopCond(fmt.x, fmt.i)
    /\ fmt' = [fmt EXCEPT !.out = Text(OneDecimal(fmt.x), UnitAt(fmt.i))]
    /\ pc' = "fmt_done"
    /\ UNCHANGED <<fs, ret, mainVars>>

NextFmt == FmtEnter \/ FmtDivide \/ FmtReturn

SpecFmt == InitFmt /\ [][NextFmt]_vars

(***************************************************************************)
(* SpecScan: the walker, the summariser, the digest builder and the        *)
(* renderer, each applied to every tree of AllFS.                          *)
(***************************************************************************)
MaxDigestDepth == 2

FmtIdle == [n |-> <<>>, x |-> ToFloat(<<>>), i |-> 0, out |-> None]

InitScan ==
    /\ MainIdle
    /\ fmt = FmtIdle
    /\ ret = None
    /\ pc = "scan_ready"
    /\ fs \in AllFS

\* structure = self.get_folder_structure(folder_path)
ScanWalk ==
    /\ pc = "scan_ready"
    /\ ret' = get_folder_structure(fs, Root)
    /\ pc' = "scanned"
    /\ UNCHANGED <<fs, fmt, mainVars>>

\* get_structure_summary(folder_path)
ScanSummary ==
    /\ pc = "scan_ready"
    /\ ret' = get_structure_summary(fs, Root)
    /\ pc' = "summarized"
    /\ UNCHANGED <<fs, fmt, mainVars>>

\* the digest analyze_with_ai builds: a scan, then _structure_to_text
ScanDigest ==
    /\ pc = "scan_ready"
    /\ \E max_depth \in 0..MaxDigestDepth :
          LET r == get_folder_structure(fs, Root)
          IN  ret' = [structure |-> r.node, max_depth |-> max_depth,
                      text |-> _structure_to_text(r.node, 0, max_depth)]
    /\ pc' = "digested"
    /\ UNCHANGED <<fs, fmt, mainVars>>

\* display_structure_tree(folder_path, show_size)
ScanRender ==
    /\ pc = "scan_ready"
    /\ \E show_size \in BOOLEAN :
          ret' = [show_size |-> show_size,
                  lines |-> _print_tree(fs, Root, <<>>, show_size)]
    /\ pc' = "rendered"
    /\ UNCHANGED <<fs, fmt, mainVars>>

NextScan == ScanWalk \/ ScanSummary \/ ScanDigest \/ ScanRender

SpecScan == InitScan /\ [][NextScan]_vars

(***************************************************************************)
(* Persistence Writer and Remote Analysis Client.  The environment decides *)
(* how the write and the request end; the code decides what it makes of    *)
(* that.  A relative JSON file name resolves in the working directory,     *)
(* which is the target directory (--path defaults to "."); an absolute one *)
(* lies outside the target.                                                *)
(***************************************************************************)
JsonFiles == {"out.json", "/tmp/out.json"}

\* where the file lies: a path below the target, or None when outside it
Resolve(output_file) == IF output_file = "out.json" THEN <<"out.json">> ELSE None

\* how open(output_file, "w") and json.dump can end: open fails; the dump
\* fails after the file was created or truncated; the document is written
IoOutcomes ==
    {[open |-> FALSE, complete |-> FALSE, bytes |-> 0],
     [open |-> TRUE, complete |-> FALSE, bytes |-> 0]}
    \cup {[open |-> TRUE, complete |-> TRUE, bytes |-> b] : b \in Sizes}

\* the disk once the file at loc holds the given bytes
WriteFile(f, loc, bytes) ==
    IF loc = None THEN f
    ELSE [q \in DOMAIN f \cup {loc} |->
             IF q = loc THEN [kind |-> "file", size |-> bytes] ELSE f[q]]

\* the handler is missing: the I/O error leaves save_structure_to_json
SaveRaises(f) == [raised |-> TRUE, ret |-> FALSE, failed |-> TRUE, fs |-> f]

\* except Exception: print the failure, return False
SaveCaught(f) == [raised |-> FALSE, ret |-> FALSE, failed |-> TRUE, fs |-> f]

save_structure_to_json(f, structure, output_file, io) ==
    LET loc == Resolve(output_file)
    IN  IF ~io.open \/ (loc # None /\ (isdir(f, loc) \/ ~isdir(f, Parent(loc))))
        THEN SaveCaught(f)
        ELSE IF ~io.complete THEN SaveCaught(WriteFile(f, loc, io.bytes))
        ELSE [raised |-> FALSE, ret |-> TRUE, failed |-> FALSE,
              fs |-> WriteFile(f, loc, io.bytes)]

\* how requests.post, raise_for_status and the reading of the body can end
NetOutcomes == {"ok", "connection_error", "timeout", "http_error", "bad_body"}

RequestExceptions == {"connection_error", "timeout", "http_error"}

\* except RequestException / except Exception: the error becomes the answer
AnswerCaught(net) ==
    [raised |-> FALSE, kind |-> "error",
     text |-> IF net \in RequestExceptions THEN "API call failed"
              ELSE "response handling failed"]

\* the part of analyze_with_ai inside its try block
Answer(net) ==
    IF net = "ok" THEN [raised |-> FALSE, kind |-> "answer", text |-> "content"]
    ELSE AnswerCaught(net)

(***************************************************************************)
(* Command Dispatcher: one run of main().                                  *)
(***************************************************************************)
DefaultDepth == 3

CannedQuestion == "canned question"

Questions == {"what is this project?"}

ApiKeys == {None, "", "sk-key"}

\* a target with at most MaxMainEntries readable entries, or no target
MainFS == TreesUpTo(MaxMainEntries, {"ok"}, MainNames) \cup {NoFS}

\* truth value of an optional string argument
Truthy(v) == v # None /\ v # ""

Zero == [scans |-> 0, writes |-> 0, requests |-> 0]

\* what a traversal has observed of the target: for every entry its path,
\* its type and its size, <<>> where the traversal did not read the size
Entries(node) ==
    {[at |-> n.path.at, type |-> n.type,
      size |-> IF n.type = "file" THEN <<n.size>> ELSE <<>>] : n \in NodesOf(node)}

\* the byte count behind a size printed by the tree render
SizeShown(info) == CHOOSE b \in Sizes \cup {0} : _format_size(ToLimbs(b)) = info

\* the entries a printed tree shows: the header names the target, and the
\* path of a line is the names of the lines above it, one per prefix segment
RECURSIVE LineEntries(_, _, _)
LineEntries(lines, above, acc) ==
    IF lines = <<>> THEN acc
    ELSE LET l == Head(lines)
         IN  IF l.kind = "header"
             THEN LineEntries(Tail(lines), above,
                              acc \cup {[at |-> l.path, type |-> "folder", size |-> <<>>]})
             ELSE IF l.kind \in {"folder", "file"}
             THEN LET at == Append(SubSeq(above, 1, Len(l.prefix)), l.name)
                      size == IF l.kind = "file" /\ l.size_info # <<>>
                              THEN <<SizeShown(l.size_info[1])>> ELSE <<>>
                  IN  LineEntries(Tail(lines), at,
                                  acc \cup {[at |-> at, type |-> l.kind, size |-> size]})
             ELSE LineEntries(Tail(lines), above, acc)

See(op, entries) == [o \in DOMAIN seen \cup {op} |-> IF o = op THEN entries ELSE seen[o]]

Init ==
    /\ pc = "main_entry"
    /\ fs \in MainFS
    /\ apiKey \in ApiKeys
    /\ args \in [tree : BOOLEAN, size : BOOLEAN, stats : BOOLEAN, all : BOOLEAN,
                 json : {None} \cup JsonFiles, ai : {None} \cup Questions,
                 depth : {DefaultDepth}, output : JsonFiles]
    /\ trace = <<>>
    /\ effects = Zero
    /\ seen = <<>>
    /\ results = <<>>
    /\ printed = <<>>
    /\ exitCode = None
    /\ ioLog = <<>>
    /\ ret = None
    /\ fmt = FmtIdle

\* not self.api_key
TokenMissing(key) == key = None \/ key = ""

\* the check is skipped
PathCheckSkipped(f) == FALSE

\* not os.path.exists(args.path)
PathMissing(f) == ~exists(f, Root)

\* the handlers of main()'s try block: report, return 1
MainExcept(exc) ==
    /\ pc' = "done"
    /\ exitCode' = 1
    /\ printed' = Append(printed, IF exc = "ValueError" THEN "config_error"
                                  ELSE "run_error")

\* agent = FileStructureAgent()
Construct ==
    /\ pc = "main_entry"
    /\ IF TokenMissing(apiKey)
       THEN MainExcept("ValueError")
       ELSE /\ pc' = "check_path"
            /\ printed' = Append(printed, "banner")
            /\ UNCHANGED exitCode
    /\ UNCHANGED <<fs, args, apiKey, trace, effects, seen, results, ioLog, ret, fmt>>

\* if not os.path.exists(args.path): ... return 1
CheckPath ==
    /\ pc = "check_path"
    /\ IF PathMissing(fs)
       THEN /\ pc' = "done"
            /\ exitCode' = 1
            /\ printed' = Append(printed, "path_error")
       ELSE /\ pc' = "apply_all"
            /\ UNCHANGED <<exitCode, printed>>
    /\ UNCHANGED <<fs, args, apiKey, trace, effects, seen, results, ioLog, ret, fmt>>

\* --all that forgets the statistics
ApplyAllArgsNoStats(a) ==
    [a EXCEPT !.tree = TRUE, !.json = a.output, !.ai = CannedQuestion]

\* args.tree = True; args.stats = True; args.json = args.output; args.ai = ...
ApplyAllArgs(a) ==
    [a EXCEPT !.tree = TRUE, !.stats = TRUE, !.json = a.output,
              !.ai = CannedQuestion]

\* if args.all: ...; results = {}
ApplyAll ==
    /\ pc = "apply_all"
    /\ IF args.all
       THEN args' = ApplyAllArgs(args) /\ printed' = Append(printed, "all")
       ELSE UNCHANGED <<args, printed>>
    /\ pc' = "tree"
    /\ UNCHANGED <<fs, apiKey, trace, effects, seen, results, exitCode, ioLog, ret, fmt>>

\* if args.tree: agent.display_structure_tree(args.path, args.size)
TreeOp ==
    /\ pc = "tree"
    /\ IF args.tree
       THEN /\ trace' = Append(trace, "tree")
            /\ effects' = [effects EXCEPT !.scans = @ + 1]
            /\ ret' = display_structure_tree(fs, Root, args.size)
            /\ seen' = See("tree", LineEntries(ret', <<>>, {}))
            /\ results' = Append(results, <<"tree", "TRUE">>)
       ELSE UNCHANGED <<trace, effects, seen, ret, results>>
    /\ pc' = "stats"
    /\ UNCHANGED <<fs, args, apiKey, printed, exitCode, ioLog, fmt>>

\* if args.stats: summary = agent.get_structure_summary(args.path)
StatsOp ==
    /\ pc = "stats"
    /\ IF args.stats
       THEN LET r == get_structure_summary(fs, Root)
            IN  /\ trace' = Append(trace, "stats")
                /\ effects' = [effects EXCEPT !.scans = @ + 1]
                /\ IF r.raised
                   THEN /\ MainExcept(r.exc)
                        /\ UNCHANGED <<seen, ret, results>>
                   ELSE /\ seen' = See("stats", Entries(r.structure))
                        /\ ret' = r.summary
                        /\ results' = Append(results, <<"stats", "TRUE">>)
                        /\ pc' = "json"
                        /\ UNCHANGED <<printed, exitCode>>
       ELSE /\ pc' = "json"
            /\ UNCHANGED <<trace, effects, seen, ret, results, printed, exitCode>>
    /\ UNCHANGED <<fs, args, apiKey, ioLog, fmt>>

\* the file name main() hands to the writer, taken from the wrong argument
JsonTargetOutput(a) == a.output

\* agent.save_structure_to_json(structure, args.json)
JsonTarget(a) == a.json

\* if args.json: structure = agent.get_folder_structure(args.path)
JsonScan ==
    /\ pc = "json"
    /\ IF Truthy(args.json)
       THEN LET r == get_folder_structure(fs, Root)
            IN  /\ trace' = Append(trace, "json.scan")
                /\ effects' = [effects EXCEPT !.scans = @ + 1]
                /\ IF r.raised
                   THEN /\ MainExcept(r.exc)
                        /\ UNCHANGED <<seen, ret>>
                   ELSE /\ seen' = See("json", Entries(r.node))
                        /\ ret' = r.node
                        /\ pc' = "json_save"
                        /\ UNCHANGED <<printed, exitCode>>
       ELSE /\ pc' = "ai"
            /\ UNCHANGED <<trace, effects, seen, ret, printed, exitCode>>
    /\ UNCHANGED <<fs, args, apiKey, results, ioLog, fmt>>

\* if agent.save_structure_to_json(structure, args.json): results['json'] = ...
JsonSave ==
    /\ pc = "json_save"
    /\ \E io \in IoOutcomes :
          LET r == save_structure_to_json(fs, ret, JsonTarget(args), io)
          IN  /\ trace' = Append(trace, "json.save")
              /\ effects' = [effects EXCEPT !.writes = @ + 1]
              /\ fs' = r.fs
              /\ ioLog' = Append(ioLog, [what |-> "save", file |-> JsonTarget(args),
                                         io |-> io, raised |-> r.raised,
                                         returned |-> r.ret])
              /\ IF r.raised
                 THEN MainExcept("OSError") /\ UNCHANGED results
                 ELSE /\ results' = IF r.ret
                                    THEN Append(results, <<"json", args.json>>)
                                    ELSE results
                      /\ pc' = "ai"
                      /\ UNCHANGED <<printed, exitCode>>
    /\ UNCHANGED <<args, apiKey, seen, ret, fmt>>

\* if args.ai: analyze_with_ai, up to the prompt: the scan and the digest
AiScan ==
    /\ pc = "ai"
    /\ IF Truthy(args.ai)
       THEN LET r == get_folder_structure(fs, Root)
            IN  /\ trace' = Append(trace, "ai.scan")
                /\ effects' = [effects EXCEPT !.scans = @ + 1]
                /\ IF r.raised
                   THEN /\ MainExcept(r.exc)
                        /\ UNCHANGED <<seen, ret>>
                   ELSE /\ seen' = See("ai", Entries(r.node))
                        /\ ret' = [question |-> args.ai,
                                   structure_text |->
                                       _structure_to_text(r.node, 0, args.depth)]
                        /\ pc' = "ai_request"
                        /\ UNCHANGED <<printed, exitCode>>
       ELSE /\ pc' = "finish"
            /\ UNCHANGED <<trace, effects, seen, ret, printed, exitCode>>
    /\ UNCHANGED <<fs, args, apiKey, results, ioLog, fmt>>

\* analyze_with_ai, the request and its handlers; print(answer); results['ai']
AiRequest ==
    /\ pc = "ai_request"
    /\ \E net \in NetOutcomes :
          LET a == Answer(net)
          IN  /\ trace' = Append(trace, "ai.request")
              /\ effects' = [effects EXCEPT !.requests = @ + 1]
              /\ ioLog' = Append(ioLog, [what |-> "request", net |-> net,
                                         question |-> ret.question,
                                         raised |-> a.raised, answer |-> a.kind])
              /\ IF a.raised
                 THEN MainExcept("Exception") /\ UNCHANGED results
                 ELSE /\ results' = Append(results, <<"ai", "TRUE">>)
                      /\ pc' = "finish"
                      /\ UNCHANGED <<printed, exitCode>>
    /\ UNCHANGED <<fs, args, apiKey, seen, ret, fmt>>

\* the test is inverted
OperationRequested(a) ==
    a.tree \/ a.stats \/ Truthy(a.json) \/ Truthy(a.ai) \/ a.all

\* not any([args.tree, args.stats, args.json, args.ai, args.all])
NoOperationRequested(a) ==
    ~(a.tree \/ a.stats \/ Truthy(a.json) \/ Truthy(a.ai) \/ a.all)

\* the help when nothing was asked for, the summary of the results, return 0
Finish ==
    /\ pc = "finish"
    /\ printed' = printed
                  \o (IF NoOperationRequested(args) THEN <<"help">> ELSE <<>>)
                  \o (IF results # <<>> THEN <<"summary">> ELSE <<>>)
    /\ exitCode' = 0
    /\ pc' = "done"
    /\ UNCHANGED <<fs, args, apiKey, trace, effects, seen, results, ioLog, ret, fmt>>

Next ==
    \/ Construct
    \/ CheckPath
    \/ ApplyAll
    \/ TreeOp
    \/ StatsOp
    \/ JsonScan
    \/ JsonSave
    \/ AiScan
    \/ AiRequest
    \/ Finish

Spec == Init /\ [][Next]_vars

(***************************************************************************)
(* C1: for every tree get_folder_structure returns, count_items yields     *)
(* folders = 1 + the folder nodes below the root at any depth, files = the *)
(* file nodes at any depth, total = the sum of the sizes of all file       *)
(* nodes, and the same triple whatever the order of the children; the      *)
(* tree root/{a.txt (10), sub/{a.txt (20)}} gives <<2, 2, 30>>.            *)
(***************************************************************************)
C1_ExampleTree ==
    (Root :> [kind |-> "dir", listing |-> "ok"])
    @@ (<<"a.txt">> :> [kind |-> "file", size |-> 10])
    @@ (<<"sub">> :> [kind |-> "dir", listing |-> "ok"])
    @@ (<<"sub", "a.txt">> :> [kind |-> "file", size |-> 20])

C1_SummaryCounts ==
    pc = "summarized" =>
        /\ ~ret.raised
        /\ ret.counts[1] = 1 + Cardinality(FolderNodes(ret.structure) \ {ret.structure})
        /\ ret.counts[2] = Cardinality(FileNodes(ret.structure))
        /\ ret.counts[3] = SumSizes(FileNodes(ret.structure))
        /\ count_items(Mirror(ret.structure)) = ret.counts
        /\ ret.summary.folders = ret.counts[1]
        /\ ret.summary.files = ret.counts[2]
        /\ fs = C1_ExampleTree => ret.counts = <<2, 2, 30>>

C1_Witness ==
    /\ pc = "summarized"
    /\ fs = C1_ExampleTree
    /\ ret.counts = <<2, 2, 30>>

(***************************************************************************)
(* C5: a scan of an existing root returns the root node; a subdirectory    *)
(* whose listing is denied or fails yields a folder node with no children  *)
(* and a warning, and every sibling directory of it, sorted before or      *)
(* after it, is scanned in full.                                           *)
(***************************************************************************)
C5_UnreadableSubdir ==
    pc = "scanned" =>
        /\ ~ret.raised
        /\ ret.node.type = "folder"
        /\ ret.node.path.at = Root
        /\ \A p \in DOMAIN fs \ {Root} :
              (isdir(fs, p) /\ fs[p].listing # "ok" /\ Reached(fs, p)) =>
                  /\ \E n \in NodesOf(ret.node) :
                        n.path.at = p /\ n.type = "folder" /\ n.children = <<>>
                  /\ \E k \in DOMAIN ret.out : ret.out[k].at = p
                  /\ \A q \in DOMAIN fs :
                        (Len(q) = Len(p) /\ Parent(q) = Parent(p) /\ q # p
                         /\ isdir(fs, q)) =>
                            \A e \in DOMAIN fs :
                                (IsPrefix(q, e) /\ Reached(fs, e)) =>
                                    HasNodeFor(ret.node, fs, e)

\* an unreadable, non-empty subdirectory sorted before a sibling directory
\* whose content is in the returned tree
C5_Witness ==
    /\ pc = "scanned"
    /\ isdir(fs, <<"a.txt">>) /\ fs[<<"a.txt">>].listing = "denied"
    /\ <<"a.txt", "sub">> \in DOMAIN fs
    /\ isdir(fs, <<"sub">>) /\ fs[<<"sub">>].listing = "ok"
    /\ isfile(fs, <<"sub", "a.txt">>)
    /\ fs[Root].listing = "ok"
    /\ HasNodeFor(ret.node, fs, <<"sub", "a.txt">>)
    /\ \E k \in DOMAIN ret.out : ret.out[k].at = <<"a.txt">>

(***************************************************************************)
(* C6, as amended: with max_depth = 0, the digest of a tree whose root has *)
(* at least one child is the root folder line followed by exactly one      *)
(* truncation marker per immediate child of the root, file or folder       *)
(* alike, and nothing else.                                                *)
(***************************************************************************)
Marker(level) == [indent |-> Indent(level), kind |-> "..."]

RootLine(node) == [indent |-> 0, kind |-> "folder", name |-> node.name]

C6_Case ==
    /\ pc = "digested"
    /\ ret.max_depth = 0
    /\ ret.structure.children # <<>>

C6_MarkerPerChild ==
    C6_Case =>
        ret.text = <<RootLine(ret.structure)>>
                   \o [k \in DOMAIN ret.structure.children |-> Marker(1)]

\* a root with a file and a non-empty folder below it
C6_Witness ==
    /\ C6_Case
    /\ \E k \in DOMAIN ret.structure.children :
          ret.structure.children[k].type = "file"
    /\ \E k \in DOMAIN ret.structure.children :
          /\ ret.structure.children[k].type = "folder"
          /\ ret.structure.children[k].children # <<>>
    /\ Len(ret.text) = 3

\* C6 as stated: one truncation marker per immediate child folder of the root
C6_MarkerPerChildFolder ==
    C6_Case =>
        LET folders == {k \in DOMAIN ret.structure.children :
                           ret.structure.children[k].type = "folder"}
            markers == {k \in DOMAIN ret.text : ret.text[k].kind = "..."}
        IN  /\ ret.text[1] = RootLine(ret.structure)
            /\ Cardinality(markers) = Cardinality(folders)
            /\ Len(ret.text) = 1 + Cardinality(folders)

(***************************************************************************)
(* C8: in the tree get_folder_structure returns, the children of every     *)
(* folder are in ascending name order, files and folders in one sequence;  *)
(* in the lines _print_tree prints, the folder entries of every directory  *)
(* (ascending by name) all come before its file entries (ascending by      *)
(* name).                                                                  *)
(***************************************************************************)
WalkerOrder(node, f) ==
    \A n \in FolderNodes(node) :
        /\ \A i, j \in DOMAIN n.children :
              i < j => Rank(n.children[i].name) < Rank(n.children[j].name)
        /\ n.children # <<>> =>
              {n.children[k].name : k \in DOMAIN n.children} = ChildNames(f, n.path.at)

Depth(line) == Len(line.prefix)

\* the lines of the directory printed under line i (0: the target itself):
\* those one level deeper, up to the first line that is not deeper than i
DirectEntries(lines, i) ==
    LET d == IF i = 0 THEN 0 ELSE Depth(lines[i]) + 1
    IN  {j \in DOMAIN lines :
            /\ j > i
            /\ Depth(lines[j]) = d
            /\ \A m \in (i + 1)..j : Depth(lines[m]) >= d}

RendererOrder(lines) ==
    \A i \in {0} \cup {k \in DOMAIN lines : lines[k].kind = "folder"} :
        \A j, k \in {e \in DirectEntries(lines, i) :
                         lines[e].kind \in {"folder", "file"}} :
            j < k =>
                /\ ~(lines[j].kind = "file" /\ lines[k].kind = "folder")
                /\ lines[j].kind = lines[k].kind =>
                       Rank(lines[j].name) < Rank(lines[k].name)

C8_TwoOrders ==
    /\ pc = "scanned" => WalkerOrder(ret.node, fs)
    /\ pc = "rendered" =>
          /\ RendererOrder(ret.lines)
          /\ fs[Root].listing = "ok" =>
                {ret.lines[e].name : e \in DirectEntries(ret.lines, 0)}
                    = ChildNames(fs, Root)

\* one directory the two components order differently: the walker puts the
\* file a.txt first, the renderer the folder sub
C8_Witness ==
    /\ pc = "rendered"
    /\ Len(ret.lines) >= 2
    /\ ret.lines[1].kind = "folder" /\ ret.lines[1].name = "sub"
    /\ ret.lines[Len(ret.lines)].kind = "file"
    /\ ret.lines[Len(ret.lines)].name = "a.txt"
    /\ Depth(ret.lines[Len(ret.lines)]) = 0
    /\ LET walked == get_folder_structure(fs, Root).node.children
       IN  /\ walked[1].type = "file" /\ walked[1].name = "a.txt"
           /\ walked[2].type = "folder" /\ walked[2].name = "sub"

(***************************************************************************)
(* C9, as amended: _format_size returns "0 B" for 0; for n >= 1 the loop   *)
(* ends after at most 3 divisions by 1024 with the unit of index           *)
(* min(3, floor(log_1024(n))) among B, KB, MB, GB, never a unit beyond GB; *)
(* for n < 1024^4 the value before rounding is below 1024, and the printed *)
(* value is at most 1024.0 (rounding to one decimal can reach it: 1048575  *)
(* prints as "1024.0 KB"); 1024 gives "1.0 KB", 1536 "1.5 KB" and          *)
(* 1073741824 "1.0 GB".                                                    *)
(***************************************************************************)
Min(a, b) == IF a < b THEN a ELSE b

\* floor(log_1024(n)) of a byte count n >= 1 is its digit count less one
UnitIndex(n) == Min(Len(size_names) - 1, Len(n) - 1)

PrintedBelowBase(out) == Len(out.int) <= 1

C9_Examples ==
    /\ fmt.n = ToLimbs(1024) => fmt.out = [int |-> <<1>>, dec |-> <<0>>, unit |-> "KB"]
    /\ fmt.n = ToLimbs(1536) => fmt.out = [int |-> <<1>>, dec |-> <<5>>, unit |-> "KB"]
    /\ fmt.n = ToLimbs(1073741824)
          => fmt.out = [int |-> <<1>>, dec |-> <<0>>, unit |-> "GB"]

C9_Common ==
    /\ fmt.i <= Len(size_names) - 1
    /\ pc = "fmt_done" =>
          /\ fmt.out = _format_size(fmt.n)
          /\ fmt.n = <<>> => fmt.out = ZeroText
          /\ fmt.n # <<>> =>
                /\ fmt.i = UnitIndex(fmt.n)
                /\ fmt.out.unit = size_names[UnitIndex(fmt.n) + 1]
                /\ Len(fmt.out.dec) = 1
          /\ C9_Examples

C9_FormatSize ==
    /\ C9_Common
    /\ (pc = "fmt_done" /\ fmt.n # <<>> /\ Len(fmt.n) <= Len(size_names)) =>
          /\ Len(fmt.x.whole) <= 1
          /\ \/ PrintedBelowBase(fmt.out)
             \/ fmt.out.int = <<0, 1>> /\ fmt.out.dec = <<0>>

\* a byte count of 1024^4 or more, printed in GB with a value of 1024 or more
C9_Witness ==
    /\ pc = "fmt_done"
    /\ Len(fmt.n) = 5
    /\ fmt.i = 3
    /\ fmt.out.unit = "GB"
    /\ ~PrintedBelowBase(fmt.out)

\* C9 as stated: the printed value is below 1024 for every n < 1024^4
C9_PrintedBelow1024 ==
    /\ C9_Common
    /\ (pc = "fmt_done" /\ fmt.n # <<>> /\ Len(fmt.n) <= Len(size_names)) =>
          PrintedBelowBase(fmt.out)

(***************************************************************************)
(* Vocabulary of the properties about main().                              *)
(***************************************************************************)
TokenAbsent == apiKey \in {None, ""}

Validated == ~TokenAbsent /\ exists(fs, Root)

\* the steps of the operations selected by the flags, in the fixed order
Expected(a) ==
    (IF a.all \/ a.tree THEN <<"tree">> ELSE <<>>)
    \o (IF a.all \/ a.stats THEN <<"stats">> ELSE <<>>)
    \o (IF a.all \/ a.json # None THEN <<"json.scan", "json.save">> ELSE <<>>)
    \o (IF a.all \/ a.ai # None THEN <<"ai.scan", "ai.request">> ELSE <<>>)

Logged(what) == {k \in DOMAIN ioLog : ioLog[k].what = what}

HasResult(key) == \E k \in DOMAIN results : results[k][1] = key

(***************************************************************************)
(* C2: whatever the flags, when the bearer token is missing or the target  *)
(* path does not exist, main returns 1 and has executed no operation: no   *)
(* directory listing, no JSON file write, no network request.              *)
(***************************************************************************)
C2_FailFast ==
    (TokenAbsent \/ ~exists(fs, Root)) =>
        /\ effects = Zero
        /\ trace = <<>>
        /\ seen = <<>>
        /\ results = <<>>
        /\ pc \in {"main_entry", "check_path", "done"}
        /\ pc = "done" => exitCode = 1

\* a run that selects local operations only and has no token
C2_Witness ==
    /\ pc = "done"
    /\ exitCode = 1
    /\ apiKey = None
    /\ args.tree /\ args.stats /\ args.json = None /\ args.ai = None /\ ~args.all
    /\ <<"a.txt">> \in DOMAIN fs
    /\ effects = Zero

FailedSaves == {k \in Logged("save") : ~ioLog[k].io.open \/ ~ioLog[k].io.complete}

FailedRequests == {k \in Logged("request") : ioLog[k].net # "ok"}

C4_LocalFailures ==
    /\ \A k \in FailedSaves :
          /\ ~ioLog[k].raised
          /\ ioLog[k].returned = FALSE
          /\ pc # "done" \/ exitCode = 0
          /\ ~HasResult("json")
    /\ \A k \in FailedRequests :
          /\ ~ioLog[k].raised
          /\ ioLog[k].answer = "error"
          /\ pc # "done" \/ exitCode = 0
    /\ (pc = "done" /\ FailedSaves \cup FailedRequests # {}) =>
          /\ exitCode = 0
          /\ trace = Expected(args)
          /\ FailedRequests # {} => HasResult("ai")

\* the export fails, the analysis that follows is run and fails too, and
\* main still returns 0
C4_Witness ==
    /\ pc = "done"
    /\ exitCode = 0
    /\ FailedSaves # {}
    /\ FailedRequests # {}
    /\ trace = <<"json.scan", "json.save", "ai.scan", "ai.request">>

(***************************************************************************)
(* C7: with the token present, the target path existing and no operation   *)
(* flag supplied, main prints the usage help, executes none of the four    *)
(* operations (no listing, no write, no request), prints no results        *)
(* summary and returns 0.                                                  *)
(***************************************************************************)
C7_Case ==
    /\ Validated
    /\ ~args.tree /\ ~args.stats /\ args.json = None /\ args.ai = None /\ ~args.all

C7_HelpOnly ==
    C7_Case =>
        /\ effects = Zero
        /\ trace = <<>>
        /\ results = <<>>
        /\ pc = "done" =>
              /\ exitCode = 0
              /\ printed = <<"banner", "help">>

C7_Witness ==
    /\ C7_Case
    /\ pc = "done"
    /\ exitCode = 0
    /\ printed = <<"banner", "help">>
    /\ <<"a.txt">> \in DOMAIN fs

(***************************************************************************)
(* C10, as amended: within one invocation of main the tree render, the     *)
(* stats scan and the JSON export scan observe the same tree, and the AI   *)
(* digest scan observes that tree too except for the entry of the JSON     *)
(* output file, which the export creates or overwrites before the AI scan  *)
(* when the output path lies inside the target directory; with the output  *)
(* path outside the target, or no export, all operations observe the same  *)
(* tree.                                                                   *)
(***************************************************************************)
\* two observations show the same tree: the same entries of the same types,
\* and the same size wherever both have read it
Shape(entries) == {[at |-> e.at, type |-> e.type] : e \in entries}

SameTree(A, B) ==
    /\ Shape(A) = Shape(B)
    /\ \A e \in A, g \in B :
          (e.at = g.at /\ e.size # <<>> /\ g.size # <<>>) => e.size = g.size

\* an observation without the entry of the JSON file, when it lies in the target
Apart(entries) ==
    IF args.json = "out.json" THEN {e \in entries : e.at # <<"out.json">>}
    ELSE entries

C10_SameTreeButOutputFile ==
    \A a, b \in DOMAIN seen :
        /\ ({a, b} \subseteq {"tree", "stats", "json"}) => SameTree(seen[a], seen[b])
        /\ SameTree(Apart(seen[a]), Apart(seen[b]))

\* the AI scan finds the file the export has just written, which the
\* operations before it did not see
C10_Witness ==
    /\ pc = "done"
    /\ DOMAIN seen = {"tree", "stats", "json", "ai"}
    /\ SameTree(seen["tree"], seen["stats"])
    /\ SameTree(seen["stats"], seen["json"])
    /\ ~SameTree(seen["json"], seen["ai"])
    /\ \E e \in seen["ai"] :
          e.at = <<"out.json">> /\ \A g \in seen["json"] : g.at # e.at

\* C10 as stated: every operation that runs observes the same tree
C10_SameTreeForAll ==
    \A a, b \in DOMAIN seen : SameTree(seen[a], seen[b])

==========================================================================
